---- MODULE Spec2Model ----
(***************************************************************************)
(* Scene Edit Store of the 3D room designer (src/src/RoomDesignerApp.jsx): *)
(* the zustand store holding the placed objects, the selection and the     *)
(* undo/redo history of whole-scene JSON snapshots.                        *)
(*                                                                         *)
(* A placed object is a function from field names to values; values are    *)
(* written as strings ("0", "NaN", "null", "#8b5cf6", "a").  The store is  *)
(* a record [objects, selectedId, undoStack, redoStack]; every store       *)
(* method is an operator from a store record (and the method's arguments)  *)
(* to the store record the method leaves behind, and every action applies  *)
(* one method to the current store.                                        *)
(***************************************************************************)
EXTENDS Naturals, Sequences, FiniteSets, TLC

VARIABLES objects, selectedId, undoStack, redoStack, plain, log, trail

vars == <<objects, selectedId, undoStack, redoStack, plain, log, trail>>

(* ---------------------------- bounds ----------------------------------- *)

\* Number of store calls explored along one behaviour.
MaxCalls == 4

(* ---------------------------- values ----------------------------------- *)

\* JavaScript null (selectedId: null, and the JSON token null).
Null == "null"

\* JavaScript NaN, e.g. parseFloat("-") typed into the rotation input.
NaN == "NaN"

\* Ids handed out by the id generator.
Ids == {"a", "b"}

\* Objects the library hands to addObject (handleAddFromLib).
NewObjects == {[id |-> i, color |-> "#8b5cf6", rotation |-> "0"] : i \in Ids}

\* Patches handed to updateObject: the inspector's colour and rotation edits
\* (the rotation edit yields NaN for a non-numeric input), and a patch that
\* names the id field, which the store accepts like any other.
Patches == {[color |-> "#ff0000"], [rotation |-> NaN], [id |-> "b"]}

\* Arguments of select: an id or null.
SelectArgs == Ids \cup {Null}

\* The argument slot of a call that takes no object or patch.
NoArg == [f \in {} |-> Null]

(* ------------------------ JSON snapshots ------------------------------- *)

\* Keys of an object in the order the object literal lists them
\* (handleAddFromLib); a spread keeps that order.
KeyOrder == <<"id", "rotation", "color">>

\* The values that are JavaScript numbers.
IsNumber(v) == v \in {"0", NaN}

\* JSON.stringify of one value: a finite number is written as a number, a
\* string as a quoted string; NaN is not representable and is written as
\* the token null, like null itself.
JSONstringifyValue(v) ==
  IF v = NaN \/ v = Null THEN [type |-> "null", text |-> "null"]
  ELSE IF IsNumber(v) THEN [type |-> "number", text |-> v]
  ELSE [type |-> "string", text |-> v]

\* JSON.stringify of one object: its own keys in order, each with its token.
JSONstringifyObject(o) ==
  LET keys == SelectSeq(KeyOrder, LAMBDA k : k \in DOMAIN o)
  IN  [j \in 1..Len(keys) |-> <<keys[j], JSONstringifyValue(o[keys[j]])>>]

\* JSON.stringify({ objects }): the document lists the objects in order.
JSONstringify(objs) ==
  [i \in 1..Len(objs) |-> JSONstringifyObject(objs[i])]

\* JSON.parse of one token.
JSONparseValue(tok) == IF tok.type = "null" THEN Null ELSE tok.text

\* JSON.parse of one object: a key maps to the value of its last member.
JSONparseObject(members) ==
  [k \in {members[j][1] : j \in 1..Len(members)} |->
     LET j == CHOOSE j \in 1..Len(members) :
                 /\ members[j][1] = k
                 /\ \A h \in 1..Len(members) : members[h][1] = k => h <= j
     IN  JSONparseValue(members[j][2])]

\* JSON.parse(snapshot): the value { objects: [...] } the document denotes.
JSONparse(snapshot) ==
  [objects |-> [i \in 1..Len(snapshot) |-> JSONparseObject(snapshot[i])]]

(* ------------------------ store methods -------------------------------- *)

\* The spread written the other way round, {...patch, ...o}: the object's
\* own fields win over the patch.
Merge_objectWins(o, patch) ==
  [f \in (DOMAIN o) \cup (DOMAIN patch) |->
     IF f \in DOMAIN o THEN o[f] ELSE patch[f]]

\* {...o, ...patch}
Merge(o, patch) ==
  [f \in (DOMAIN o) \cup (DOMAIN patch) |->
     IF f \in DOMAIN patch THEN patch[f] ELSE o[f]]

\* pushUndo with the redoStack reset left out.
pushUndo_keepsRedo(s) ==
  [s EXCEPT !.undoStack = Append(s.undoStack, JSONstringify(s.objects))]

\* pushUndo that also loads the snapshot it took back into objects.
pushUndo_reloadsSnapshot(s) ==
  LET snapshot == JSONstringify(s.objects)
  IN  [s EXCEPT !.objects = JSONparse(snapshot).objects,
                !.undoStack = Append(s.undoStack, snapshot),
                !.redoStack = <<>>]

pushUndo(s) ==
  LET snapshot == JSONstringify(s.objects)
  IN  [s EXCEPT !.undoStack = Append(s.undoStack, snapshot),
                !.redoStack = <<>>]

\* addObject with the new object put in front: [obj, ...s.objects].
addObject_prepends(s, obj) ==
  pushUndo([s EXCEPT !.objects = <<obj>> \o s.objects])

\* addObject with pushUndo() called before the set(): the snapshot is taken
\* of the object set as it was before the mutation.
addObject_snapshotsBefore(s, obj) ==
  [pushUndo(s) EXCEPT !.objects = Append(s.objects, obj)]

addObject(s, obj) ==
  pushUndo([s EXCEPT !.objects = Append(s.objects, obj)])

updateObject(s, targetId, patch) ==
  pushUndo([s EXCEPT !.objects =
     [i \in 1..Len(s.objects) |->
        IF s.objects[i].id = targetId THEN Merge(s.objects[i], patch)
                                      ELSE s.objects[i]]])

\* removeObject with the selection left alone.
removeObject_keepsSelection(s, targetId) ==
  pushUndo([s EXCEPT
     !.objects = SelectSeq(s.objects, LAMBDA o : o.id # targetId)])

removeObject(s, targetId) ==
  pushUndo([s EXCEPT
     !.objects = SelectSeq(s.objects, LAMBDA o : o.id # targetId),
     !.selectedId = IF s.selectedId = targetId THEN Null ELSE s.selectedId])

\* select written like the mutating methods, with a trailing pushUndo().
select_pushesUndo(s, targetId) ==
  pushUndo([s EXCEPT !.selectedId = targetId])

select(s, targetId) == [s EXCEPT !.selectedId = targetId]

\* undo with the selection cleared before the empty-history return.
undo_clearsSelectionFirst(s) ==
  IF Len(s.undoStack) = 0 THEN [s EXCEPT !.selectedId = Null]
  ELSE LET last == s.undoStack[Len(s.undoStack)]
           parsed == JSONparse(last)
       IN  [objects |-> parsed.objects,
            selectedId |-> Null,
            undoStack |-> SubSeq(s.undoStack, 1, Len(s.undoStack) - 1),
            redoStack |-> Append(s.redoStack, JSONstringify(s.objects))]

\* undo with selectedId left out of the final set().
undo_keepsSelection(s) ==
  IF Len(s.undoStack) = 0 THEN s
  ELSE LET last == s.undoStack[Len(s.undoStack)]
           parsed == JSONparse(last)
       IN  [objects |-> parsed.objects,
            selectedId |-> s.selectedId,
            undoStack |-> SubSeq(s.undoStack, 1, Len(s.undoStack) - 1),
            redoStack |-> Append(s.redoStack, JSONstringify(s.objects))]

undo(s) ==
  IF Len(s.undoStack) = 0 THEN s
  ELSE LET last == s.undoStack[Len(s.undoStack)]
           parsed == JSONparse(last)
       IN  [objects |-> parsed.objects,
            selectedId |-> Null,
            undoStack |-> SubSeq(s.undoStack, 1, Len(s.undoStack) - 1),
            redoStack |-> Append(s.redoStack, JSONstringify(s.objects))]

\* redo with selectedId left out of the final set().
redo_keepsSelection(s) ==
  IF Len(s.redoStack) = 0 THEN s
  ELSE LET last == s.redoStack[Len(s.redoStack)]
           parsed == JSONparse(last)
       IN  [objects |-> parsed.objects,
            selectedId |-> s.selectedId,
            undoStack |-> Append(s.undoStack, JSONstringify(s.objects)),
            redoStack |-> SubSeq(s.redoStack, 1, Len(s.redoStack) - 1)]

\* redo with the push of the current state onto undoStack left out.
redo_dropsCurrent(s) ==
  IF Len(s.redoStack) = 0 THEN s
  ELSE LET last == s.redoStack[Len(s.redoStack)]
           parsed == JSONparse(last)
       IN  [objects |-> parsed.objects,
            selectedId |-> Null,
            undoStack |-> s.undoStack,
            redoStack |-> SubSeq(s.redoStack, 1, Len(s.redoStack) - 1)]

redo(s) ==
  IF Len(s.redoStack) = 0 THEN s
  ELSE LET last == s.redoStack[Len(s.redoStack)]
           parsed == JSONparse(last)
       IN  [objects |-> parsed.objects,
            selectedId |-> Null,
            undoStack |-> Append(s.undoStack, JSONstringify(s.objects)),
            redoStack |-> SubSeq(s.redoStack, 1, Len(s.redoStack) - 1)]

(* ------------------- store methods, history-free store ---------------- *)

\* The store of src/unnamed/part_000 holds objects and selectedId only; its
\* methods are operators on a record [objects, selectedId].

plainAddObject(p, obj) == [p EXCEPT !.objects = Append(p.objects, obj)]

plainSelect(p, targetId) == [p EXCEPT !.selectedId = targetId]

plainUpdateObject(p, targetId, patch) ==
  [p EXCEPT !.objects =
     [i \in 1..Len(p.objects) |->
        IF p.objects[i].id = targetId THEN Merge(p.objects[i], patch)
                                      ELSE p.objects[i]]]

plainRemoveObject(p, targetId) ==
  [p EXCEPT
     !.objects = SelectSeq(p.objects, LAMBDA o : o.id # targetId),
     !.selectedId = IF p.selectedId = targetId THEN Null ELSE p.selectedId]

(* ---------------------------- state ------------------------------------ *)

\* The store as one record.
store ==
  [objects |-> objects, selectedId |-> selectedId,
   undoStack |-> undoStack, redoStack |-> redoStack]

\* create((set, get) => ({ objects: [], selectedId: null, ... }))
Init ==
  /\ objects = <<>>
  /\ selectedId = Null
  /\ undoStack = <<>>
  /\ redoStack = <<>>
  /\ plain = [objects |-> <<>>, selectedId |-> Null]
  /\ log = <<>>
  /\ trail = <<>>

\* One call, made on the store and on the history-free store alike: the
\* store becomes t and the history-free store p; the call and the store it
\* was made on are recorded (log[k] is the k-th call, trail[k] the store
\* just before it).
Call(name, targetId, arg, t, p) ==
  /\ Len(log) < MaxCalls
  /\ objects' = t.objects
  /\ selectedId' = t.selectedId
  /\ undoStack' = t.undoStack
  /\ redoStack' = t.redoStack
  /\ plain' = p
  /\ log' = Append(log, [name |-> name, id |-> targetId, arg |-> arg])
  /\ trail' = Append(trail, store)

AddObjectCall ==
  \E obj \in NewObjects : Call("addObject", obj.id, obj,
          addObject(store, obj), plainAddObject(plain, obj))

UpdateObjectCall ==
  \E targetId \in Ids, patch \in Patches :
     Call("updateObject", targetId, patch,
          updateObject(store, targetId, patch),
          plainUpdateObject(plain, targetId, patch))

RemoveObjectCall ==
  \E targetId \in Ids :
     Call("removeObject", targetId, NoArg,
          removeObject(store, targetId), plainRemoveObject(plain, targetId))

SelectCall ==
  \E targetId \in SelectArgs :
     Call("select", targetId, NoArg,
          select(store, targetId), plainSelect(plain, targetId))

\* The history-free store has no undo and no redo: it stays as it is.
UndoCall == Call("undo", Null, NoArg, undo(store), plain)

RedoCall == Call("redo", Null, NoArg, redo(store), plain)

Next ==
  \/ AddObjectCall
  \/ UpdateObjectCall
  \/ RemoveObjectCall
  \/ SelectCall
  \/ UndoCall
  \/ RedoCall

Spec == Init /\ [][Next]_vars

(* ------------------------ observation helpers -------------------------- *)

\* The last call made, and the store it was made on.
Called == Len(log) > 0
lastOp == log[Len(log)]
pre == trail[Len(trail)]

Mutators == {"addObject", "updateObject", "removeObject"}

\* The ids of a sequence of objects.
IdsOf(objs) == {objs[i].id : i \in 1..Len(objs)}

\* The store after k successive undo() calls on s.
RECURSIVE UndoTimes(_, _)
UndoTimes(s, k) == IF k = 0 THEN s ELSE UndoTimes(undo(s), k - 1)

\* The calls so far are all addObject calls, with pairwise distinct ids.
OnlyDistinctAdds ==
  /\ \A k \in 1..Len(log) : log[k].name = "addObject"
  /\ \A h, k \in 1..Len(log) : log[h].id = log[k].id => h = k

\* The last call is updateObject or removeObject with an id that no object
\* of the set it was made on carries.
MissingIdCall ==
  /\ Called
  /\ lastOp.name \in {"updateObject", "removeObject"}
  /\ lastOp.id \notin IdsOf(pre.objects)

(* ------------------------------ claims --------------------------------- *)

\* C1: every structural mutation is undoable: after an addObject,
\* updateObject or removeObject call that changed the object set, some
\* finite number of immediately following undo() calls brings back the
\* object set that was present just before the call.
C1_EveryMutationUndoable ==
  (Called /\ lastOp.name \in Mutators /\ objects # pre.objects)
    => \E k \in 1..(Len(undoStack) + 1) :
          UndoTimes(store, k).objects = pre.objects

\* C2: selection invariant: in every reachable state selectedId is null or
\* the id of an object currently in the object set.
C2_SelectionInvariant ==
  selectedId = Null \/ selectedId \in IdsOf(objects)

\* C3: history linearity: immediately after any mutating call (addObject,
\* updateObject, removeObject) redoStack is empty, whatever it held before.
C3_HistoryLinearity ==
  (Called /\ lastOp.name \in Mutators) => redoStack = <<>>

\* C3 witness: a mutating call made while a redo was available.
C3_Witness ==
  Called /\ lastOp.name \in Mutators /\ pre.redoStack # <<>>

\* C4: round trip: undo() immediately followed by redo() leaves the object
\* set exactly equal to the one present immediately before the undo().
C4_RoundTrip ==
  (/\ Len(log) >= 2
   /\ log[Len(log) - 1].name = "undo"
   /\ lastOp.name = "redo")
    => objects = trail[Len(trail) - 1].objects

\* C5: lagged undo: an undo() issued immediately after a mutating call
\* leaves the object set equal to the object set that call produced.
C5_LaggedUndo ==
  (/\ Len(log) >= 2
   /\ log[Len(log) - 1].name \in Mutators
   /\ lastOp.name = "undo")
    => objects = pre.objects

\* C6: undo() on an empty undoStack and redo() on an empty redoStack leave
\* objects, selectedId, undoStack and redoStack all unchanged.
C6_EmptyHistoryNoOp ==
  /\ (Called /\ lastOp.name = "undo" /\ pre.undoStack = <<>>) => store = pre
  /\ (Called /\ lastOp.name = "redo" /\ pre.redoStack = <<>>) => store = pre

\* C6 witness: an undo() on an empty undoStack made while an object was
\* selected, after an earlier redo() on an empty redoStack.
C6_Witness ==
  /\ Called /\ lastOp.name = "undo" /\ pre.undoStack = <<>>
  /\ pre.selectedId # Null
  /\ \E k \in 1..Len(log) : log[k].name = "redo" /\ trail[k].redoStack = <<>>

\* C7: removeObject(id) called while selectedId = id leaves selectedId null
\* and no object with that id in the object set.
C7_RemoveSelected ==
  (Called /\ lastOp.name = "removeObject" /\ pre.selectedId = lastOp.id)
    => (selectedId = Null /\ lastOp.id \notin IdsOf(objects))

\* C7 witness: the selected object was in the set and has been removed.
C7_Witness ==
  /\ Called /\ lastOp.name = "removeObject" /\ pre.selectedId = lastOp.id
  /\ lastOp.id \in IdsOf(pre.objects)

\* C8: updateObject and removeObject with an id absent from the object set
\* leave the object set (contents and order) and selectedId unchanged.
C8_MissingIdKeepsScene ==
  MissingIdCall => (objects = pre.objects /\ selectedId = pre.selectedId)

\* C9: updateObject and removeObject with an id absent from the object set
\* leave undoStack and redoStack unchanged as well.
C9_MissingIdKeepsHistory ==
  MissingIdCall => (undoStack = pre.undoStack /\ redoStack = pre.redoStack)

\* C10: uniqueness and order: after addObject calls with pairwise distinct
\* ids from the empty scene, the object set holds exactly one entry per
\* added id, in the order of the calls.
C10_UniquenessAndOrder ==
  OnlyDistinctAdds =>
    /\ Len(objects) = Len(log)
    /\ \A k \in 1..Len(log) : objects[k] = log[k].arg
    /\ \A k \in 1..Len(log) :
          Cardinality({i \in 1..Len(objects) : objects[i].id = log[k].id}) = 1

\* C10 witness: two objects with distinct ids have been added, nothing else.
C10_Witness ==
  OnlyDistinctAdds /\ Len(log) = 2 /\ Len(objects) = 2

\* No two objects of the sequence carry the same id.
UniqueIds(objs) ==
  \A i, j \in 1..Len(objs) : objs[i].id = objs[j].id => i = j

\* C11: updateObject(targetId, patch) with targetId present and ids unique
\* replaces exactly that object by the shallow merge of its fields with the
\* patch: patched fields take the patch value, its other fields, every other
\* object and the order of the set are unchanged.
C11_UpdateMerges ==
  (/\ Called
   /\ lastOp.name = "updateObject"
   /\ lastOp.id \in IdsOf(pre.objects)
   /\ UniqueIds(pre.objects))
    => /\ Len(objects) = Len(pre.objects)
       /\ \A i \in 1..Len(pre.objects) :
            IF pre.objects[i].id = lastOp.id
            THEN /\ DOMAIN objects[i] =
                      (DOMAIN pre.objects[i]) \cup (DOMAIN lastOp.arg)
                 /\ \A f \in DOMAIN lastOp.arg : objects[i][f] = lastOp.arg[f]
                 /\ \A f \in (DOMAIN pre.objects[i]) \ (DOMAIN lastOp.arg) :
                      objects[i][f] = pre.objects[i][f]
            ELSE objects[i] = pre.objects[i]

\* C11 witness: one of two objects has been patched and has changed.
C11_Witness ==
  /\ Called
  /\ lastOp.name = "updateObject"
  /\ lastOp.id \in IdsOf(pre.objects)
  /\ UniqueIds(pre.objects)
  /\ Len(pre.objects) = 2
  /\ objects # pre.objects

\* C12: select(id) is not tracked in history: for an id or null it sets
\* selectedId to its argument and leaves objects, undoStack and redoStack
\* unchanged.
C12_SelectUntracked ==
  (Called /\ lastOp.name = "select")
    => /\ selectedId = lastOp.id
       /\ objects = pre.objects
       /\ undoStack = pre.undoStack
       /\ redoStack = pre.redoStack

\* C12 witness: a select that changed the selection while both stacks held
\* a snapshot.
C12_Witness ==
  /\ Called /\ lastOp.name = "select"
  /\ selectedId # pre.selectedId
  /\ pre.undoStack # <<>>
  /\ pre.redoStack # <<>>

\* The last call is an undo() made on a non-empty undoStack.
EffectiveUndo ==
  Called /\ lastOp.name = "undo" /\ pre.undoStack # <<>>

\* The last call is a redo() made on a non-empty redoStack.
EffectiveRedo ==
  Called /\ lastOp.name = "redo" /\ pre.redoStack # <<>>

\* C14: undo() with a non-empty undoStack removes exactly the top snapshot
\* from undoStack, appends the snapshot of the object set held just before
\* the call to redoStack, sets the object set to what the removed snapshot
\* denotes, and sets selectedId to null.
C14_UndoEffect ==
  EffectiveUndo
    => /\ undoStack = SubSeq(pre.undoStack, 1, Len(pre.undoStack) - 1)
       /\ redoStack = pre.redoStack \o <<JSONstringify(pre.objects)>>
       /\ objects = JSONparse(pre.undoStack[Len(pre.undoStack)]).objects
       /\ selectedId = Null

\* C14 witness: an undo() that changed the object set and cleared a
\* selection.
C14_Witness ==
  EffectiveUndo /\ pre.selectedId # Null /\ objects # pre.objects

\* C15: redo() with a non-empty redoStack removes exactly the top snapshot
\* from redoStack, appends the snapshot of the object set held just before
\* the call to undoStack, sets the object set to what the removed snapshot
\* denotes, and sets selectedId to null.
C15_RedoEffect ==
  EffectiveRedo
    => /\ redoStack = SubSeq(pre.redoStack, 1, Len(pre.redoStack) - 1)
       /\ undoStack = pre.undoStack \o <<JSONstringify(pre.objects)>>
       /\ objects = JSONparse(pre.redoStack[Len(pre.redoStack)]).objects
       /\ selectedId = Null

\* C15 witness: a redo() that cleared a selection.
C15_Witness ==
  EffectiveRedo /\ pre.selectedId # Null

\* C13: every mutating call (addObject, updateObject, removeObject) makes
\* undoStack exactly one longer, leaves its earlier entries unchanged, and
\* the pushed top snapshot is the snapshot of the object set as it is after
\* the mutation (post-mutation, not pre-mutation).
C13_PushesPostMutationSnapshot ==
  (Called /\ lastOp.name \in Mutators)
    => /\ Len(undoStack) = Len(pre.undoStack) + 1
       /\ SubSeq(undoStack, 1, Len(pre.undoStack)) = pre.undoStack
       /\ undoStack[Len(undoStack)] = JSONstringify(objects)

\* C13 witness: a mutating call on a non-empty undoStack after which the
\* snapshot of the object set differs from the snapshot of the set before.
C13_Witness ==
  /\ Called /\ lastOp.name \in Mutators
  /\ pre.undoStack # <<>>
  /\ JSONstringify(objects) # JSONstringify(pre.objects)

\* The ids of a sequence of objects, in order.
IdSeq(objs) == [i \in 1..Len(objs) |-> objs[i].id]

\* C16: object ids are immutable: for every updateObject(targetId, patch),
\* with any patch, the sequence of ids of the object set is the same before
\* and after the call.
C16_IdsImmutable ==
  (Called /\ lastOp.name = "updateObject")
    => IdSeq(objects) = IdSeq(pre.objects)

\* C17: whenever redoStack is empty and undoStack is not, the top snapshot
\* of undoStack is the snapshot of the current object set; hence an undo()
\* issued while no redo is available never changes the object set (it only
\* shortens undoStack and clears the selection).
C17_UndoWithoutRedoIsInvisible ==
  /\ (redoStack = <<>> /\ undoStack # <<>>)
       => undoStack[Len(undoStack)] = JSONstringify(objects)
  /\ (Called /\ lastOp.name = "undo" /\ pre.redoStack = <<>>)
       => objects = pre.objects

\* A sequence in reverse order.
Reverse(q) == [i \in 1..Len(q) |-> q[Len(q) + 1 - i]]

\* The timeline of a store: the snapshots of undoStack, then the snapshot
\* of the current object set, then the snapshots of redoStack in reverse.
Timeline(s) ==
  s.undoStack \o <<JSONstringify(s.objects)>> \o Reverse(s.redoStack)

\* C18: undo() and redo() only move a cursor through a fixed timeline: each
\* call preserves the timeline, so length(undoStack) + length(redoStack) is
\* unchanged, and an undo() immediately after a successful redo() restores
\* objects, undoStack and redoStack exactly.
C18_FixedTimeline ==
  /\ (Called /\ lastOp.name \in {"undo", "redo"})
       => /\ Timeline(store) = Timeline(pre)
          /\ Len(undoStack) + Len(redoStack)
               = Len(pre.undoStack) + Len(pre.redoStack)
  /\ (/\ Len(log) >= 2
      /\ log[Len(log) - 1].name = "redo"
      /\ trail[Len(trail) - 1].redoStack # <<>>
      /\ lastOp.name = "undo")
       => /\ objects = trail[Len(trail) - 1].objects
          /\ undoStack = trail[Len(trail) - 1].undoStack
          /\ redoStack = trail[Len(trail) - 1].redoStack

\* C18 witness: an undo() right after a successful redo(), both of which
\* moved the cursor.
C18_Witness ==
  /\ Len(log) >= 2
  /\ log[Len(log) - 1].name = "redo"
  /\ trail[Len(trail) - 1].redoStack # <<>>
  /\ lastOp.name = "undo"
  /\ undoStack # pre.undoStack

\* The calls so far are addObject, updateObject, removeObject and select
\* calls only.
NoHistoryCalls ==
  \A k \in 1..Len(log) : log[k].name \in Mutators \cup {"select"}

\* C19: the history-tracking store refines the history-free store: after
\* every sequence of addObject, updateObject, removeObject and select calls
\* applied to both from their initial states, objects and selectedId are
\* equal in the two stores.
C19_RefinesHistoryFree ==
  NoHistoryCalls
    => (objects = plain.objects /\ selectedId = plain.selectedId)

\* C19 witness: three or more such calls have left an object with a NaN
\* field in the set, a selection, and snapshots on undoStack.
C19_Witness ==
  /\ NoHistoryCalls
  /\ Len(log) >= 3
  /\ selectedId # Null
  /\ \E i \in 1..Len(objects) : objects[i].rotation = NaN
  /\ undoStack # <<>>

====
